---- MODULE Spec2Model ----
(***************************************************************************)
(* Model of csv_multi.py: split a csv into chunks, transform every chunk   *)
(* in its own process, collect the results through a queue, merge them.    *)
(*                                                                         *)
(* A file is a sequence of lines.  A line of the input carries its fields  *)
(* (raw) and its length in characters (len), so that the character         *)
(* arithmetic of split (READ_BUFFER sized reads, then one readline) is     *)
(* done on the real buffer size.  What split copies is kept as pieces      *)
(* <<line, from, to>>: characters from..to-1 of that body line.            *)
(***************************************************************************)
EXTENDS Integers, Sequences, FiniteSets, TLC

\* ------------------------------------------------------------ bounds ----
MaxRecords == 2
MaxCpu == 2

\* --------------------------------------------------- program constants ---
READ_BUFFER == 8192

\* ------------------------------------------------------- small helpers ---
Min2(a, b) == IF a < b THEN a ELSE b
Max2(a, b) == IF a > b THEN a ELSE b
Range(s) == {s[k] : k \in 1..Len(s)}

RECURSIVE Flatten(_)
Flatten(ss) == IF ss = <<>> THEN <<>> ELSE Head(ss) \o Flatten(Tail(ss))

\* ---------------------------------------------------------- the input ----
\* The header line of the inputs and its length ("a,b,c\n").
HeaderFields == <<"a", "b", "c">>
NameLen(name) == IF name = "new_column" THEN 10 ELSE IF name = "extra" THEN 5 ELSE 1
RECURSIVE LineLenOf(_)
LineLenOf(fields) ==
    IF fields = <<>> THEN 0 ELSE NameLen(Head(fields)) + 1 + LineLenOf(Tail(fields))

\* Lengths a body line can have: far shorter than READ_BUFFER, longer than it.
LineLens == {100, 9000}
\* Shapes of a body line: as many fields as the header, a value that some
\* transformers react to, fewer fields than the header, more fields.
Kinds == {"ok", "bad", "short", "long"}
Tag == <<"r1", "r2", "r3", "r4", "r5", "r6">>

RawFields(k, kind) ==
    CASE kind = "ok"    -> <<Tag[k], "ok", "x">>
      [] kind = "bad"   -> <<Tag[k], "bad", "x">>
      [] kind = "short" -> <<Tag[k]>>
      [] kind = "long"  -> <<Tag[k], "ok", "x", "y">>

BodyLine(k, kind, n) == [raw |-> RawFields(k, kind), len |-> n]

Bodies(n) ==
    {[k \in 1..n |-> BodyLine(k, ks[k], ls[k])] :
        ks \in [1..n -> Kinds], ls \in [1..n -> LineLens]}

\* An input file: empty (zero characters), or the header line and 0..MaxRecords
\* body lines.
InputFiles ==
    {[header |-> <<>>, lines |-> <<>>]}
    \cup {[header |-> HeaderFields, lines |-> b] :
            b \in UNION {Bodies(n) : n \in 0..MaxRecords}}

\* ------------------------------------------------ character positions ----
HeaderLen(f) == LineLenOf(f.header)
RECURSIVE SumLen(_)
SumLen(lines) == IF lines = <<>> THEN 0 ELSE Head(lines).len + SumLen(Tail(lines))
\* os.path.getsize
FileSize(f) == HeaderLen(f) + SumLen(f.lines)
\* first character of body line k, and the one after its last
LineStart(f, k) == HeaderLen(f) + SumLen(SubSeq(f.lines, 1, k - 1))
LineEnd(f, k) == LineStart(f, k) + f.lines[k].len

\* The pieces of the body lines lying in the characters from..to-1.
RECURSIVE PiecesFrom(_, _, _, _)
PiecesFrom(f, k, from, to) ==
    IF k > Len(f.lines) THEN <<>>
    ELSE LET lo == Max2(from, LineStart(f, k))
             hi == Min2(to, LineEnd(f, k))
             rest == PiecesFrom(f, k + 1, from, to)
         IN  IF lo < hi
             THEN <<<<k, lo - LineStart(f, k), hi - LineStart(f, k)>>>> \o rest
             ELSE rest
Pieces(f, from, to) == PiecesFrom(f, 1, from, to)

\* infile.read(n) at position pos: the data and the new position
FileRead(f, pos, n) ==
    LET to == Min2(pos + n, FileSize(f))
    IN  [data |-> Pieces(f, pos, to), pos |-> to]

\* infile.readline() at position pos: up to and including the end of the line
\* that holds pos; nothing at end of file
FileReadline(f, pos) ==
    LET ends == {LineEnd(f, k) : k \in 1..Len(f.lines)}
        after == {e \in ends : e > pos}
        to == IF after = {} THEN pos
              ELSE CHOOSE e \in after : \A e2 \in after : e <= e2
    IN  [data |-> Pieces(f, pos, to), pos |-> to]

\* Adjacent pieces of one line written one after the other are one piece.
RECURSIVE Coalesce(_)
Coalesce(ps) ==
    IF Len(ps) < 2 THEN ps
    ELSE IF ps[1][1] = ps[2][1] /\ ps[1][3] = ps[2][2]
         THEN Coalesce(<<<<ps[1][1], ps[1][2], ps[2][3]>>>> \o SubSeq(ps, 3, Len(ps)))
         ELSE <<ps[1]>> \o Coalesce(Tail(ps))

\* ---------------------------------------------------------------- split --
\* CopyLoop that stops one buffer short of the target size
RECURSIVE CopyLoop_StopsEarly(_, _, _)
CopyLoop_StopsEarly(f, num_chunks, st) ==
    IF (st.size + READ_BUFFER) * num_chunks < FileSize(f)
    THEN LET r == FileRead(f, st.pos, READ_BUFFER)
         IN  CopyLoop_StopsEarly(f, num_chunks,
                                 [pos |-> r.pos, size |-> st.size + READ_BUFFER,
                                  body |-> st.body \o r.data])
    ELSE st

\* the copy loop of one chunk: st = [pos, size, body]
RECURSIVE CopyLoop(_, _, _)
CopyLoop(f, num_chunks, st) ==
    IF st.size * num_chunks < FileSize(f)
    THEN LET r == FileRead(f, st.pos, READ_BUFFER)
         IN  CopyLoop(f, num_chunks,
                      [pos |-> r.pos, size |-> st.size + READ_BUFFER,
                       body |-> st.body \o r.data])
    ELSE st

\* SplitOne with the line that readline returns read but not written
SplitOne_DropsRemainder(f, num_chunks, pos) ==
    LET c == CopyLoop(f, num_chunks, [pos |-> pos, size |-> 0, body |-> <<>>])
        r == FileReadline(f, c.pos)
    IN  [chunk |-> [header |-> f.header, body |-> c.body, at |-> "start"], pos |-> r.pos]

\* SplitOne without the readline: the chunk ends where the last buffer ended
SplitOne_NoReadline(f, num_chunks, pos) ==
    LET c == CopyLoop(f, num_chunks, [pos |-> pos, size |-> 0, body |-> <<>>])
    IN  [chunk |-> [header |-> f.header, body |-> c.body, at |-> "start"], pos |-> c.pos]

\* SplitOne without files[-1].seek(0, 0): the chunk is left positioned at its end
SplitOne_NoSeek(f, num_chunks, pos) ==
    LET c == CopyLoop(f, num_chunks, [pos |-> pos, size |-> 0, body |-> <<>>])
        r == FileReadline(f, c.pos)
    IN  [chunk |-> [header |-> f.header, body |-> c.body \o r.data, at |-> "end"],
         pos |-> r.pos]

\* one iteration of "for _ in range(num_chunks)": the chunk and the new position.
\* A chunk is its header line, its body, and where its file object is
\* positioned (at), which seek(0, 0) makes the start.
SplitOne(f, num_chunks, pos) ==
    LET c == CopyLoop(f, num_chunks, [pos |-> pos, size |-> 0, body |-> <<>>])
        r == FileReadline(f, c.pos)
    IN  [chunk |-> [header |-> f.header, body |-> c.body \o r.data, at |-> "start"],
         pos |-> r.pos]

\* SplitLoop that makes no further chunk once the source is at its end
RECURSIVE SplitLoop_StopsAtEof(_, _, _, _, _)
SplitLoop_StopsAtEof(f, num_chunks, done, pos, files) ==
    IF done = num_chunks \/ (done > 0 /\ pos = FileSize(f))
    THEN [files |-> files, pos |-> pos]
    ELSE LET s == SplitOne(f, num_chunks, pos)
         IN  SplitLoop_StopsAtEof(f, num_chunks, done + 1, s.pos, Append(files, s.chunk))

RECURSIVE SplitLoop(_, _, _, _, _)
SplitLoop(f, num_chunks, done, pos, files) ==
    IF done = num_chunks THEN [files |-> files, pos |-> pos]
    ELSE LET s == SplitOne(f, num_chunks, pos)
         IN  SplitLoop(f, num_chunks, done + 1, s.pos, Append(files, s.chunk))

\* split(infilename, num_chunks): the chunks, and where the source cursor ends
split(f, num_chunks) == SplitLoop(f, num_chunks, 0, HeaderLen(f), <<>>)

\* ------------------------------------------------------ csv: the reader --
\* Values that are not strings of the file: None, and the 0 of the probe row.
NoneValue == "<None>"
ProbeValue == "<0>"
\* the key DictReader files surplus values under (restkey), and their list
RestKey == "<restkey>"
RestValue == "<rest>"

\* the text lines a reader gets from a chunk: the copied header line, then the
\* body, when the chunk is positioned at its start, and nothing when it is at
\* its end.  A piece that is not a whole line reads as a damaged record.
PieceFields(f, p) ==
    IF p[2] = 0 /\ p[3] = f.lines[p[1]].len THEN f.lines[p[1]].raw ELSE <<"torn">>
ChunkLines(f, chunk) ==
    LET ps == Coalesce(chunk.body)
    IN  IF chunk.at # "start" THEN <<>>
        ELSE (IF chunk.header = <<>> THEN <<>> ELSE <<chunk.header>>)
             \o [k \in 1..Len(ps) |-> PieceFields(f, ps[k])]

\* A dict is the sequence of its <<key, value>> items in insertion order.
Keys(d) == [k \in 1..Len(d) |-> d[k][1]]
Has(d, key) == \E k \in 1..Len(d) : d[k][1] = key
Get(d, key) == IF Has(d, key) THEN d[CHOOSE k \in 1..Len(d) : d[k][1] = key][2]
               ELSE NoneValue
Set(d, key, v) ==
    IF Has(d, key) THEN [k \in 1..Len(d) |-> IF d[k][1] = key THEN <<key, v>> ELSE d[k]]
    ELSE Append(d, <<key, v>>)
Del(d, key) == SelectSeq(d, LAMBDA item : item[1] # key)

\* DictReader.__next__: zip the values to the field names; surplus values go
\* under restkey, missing ones are None
RowDict(fieldnames, raw) ==
    LET lf == Len(fieldnames)
        lr == Len(raw)
        zipped == [k \in 1..Min2(lf, lr) |-> <<fieldnames[k], raw[k]>>]
    IN  IF lf < lr THEN Append(zipped, <<RestKey, RestValue>>)
        ELSE zipped \o [k \in 1..(lf - lr) |-> <<fieldnames[lr + k], NoneValue>>]

\* --------------------------------------------------- the transformers ----
\* identity and add_a_column are the module's own; the others stand for
\* functions a caller passes: one that re-inserts a field, drops one and adds
\* one, two that raise, two whose effect on the fields depends on the row.
Functions ==
    {"identity", "add_a_column", "reshape", "raise_on_probe", "raise_on_bad",
     "add_if_bad", "drop_if_bad"}

identity(row) == [raised |-> FALSE, row |-> row]

add_a_column(row) == [raised |-> FALSE, row |-> Set(row, "new_column", "default_value")]

\* function(row): the row as the call leaves it, and whether the call raised
Apply(function, row) ==
    CASE function = "identity" -> identity(row)
      [] function = "add_a_column" -> add_a_column(row)
      [] function = "reshape" ->
            [raised |-> FALSE,
             row |-> Set(Set(Del(Del(row, "a"), "c"), "z", "zz"), "a", Get(row, "a"))]
      [] function = "raise_on_probe" ->
            [raised |-> Get(row, "a") = ProbeValue, row |-> row]
      [] function = "raise_on_bad" ->
            [raised |-> Get(row, "b") = "bad", row |-> row]
      [] function = "add_if_bad" ->
            [raised |-> FALSE,
             row |-> IF Get(row, "b") = "bad" THEN Set(row, "extra", "1") ELSE row]
      [] function = "drop_if_bad" ->
            [raised |-> FALSE,
             row |-> IF Get(row, "b") = "bad" THEN Del(row, "c") ELSE row]

\* ------------------------------------------------------ csv: the writer --
\* WriteRow of a DictWriter made with extrasaction="ignore"
WriteRow_IgnoresExtras(fieldnames, row) ==
    [raised |-> FALSE,
     line |-> [k \in 1..Len(fieldnames) |->
                 IF Has(row, fieldnames[k]) /\ Get(row, fieldnames[k]) # NoneValue
                 THEN Get(row, fieldnames[k]) ELSE ""]]

\* DictWriter.writerow: a key outside the field names raises ValueError; a
\* missing key is written as the empty string, and so is None
WriteRow(fieldnames, row) ==
    IF \E k \in 1..Len(row) : row[k][1] \notin Range(fieldnames)
    THEN [raised |-> TRUE, line |-> <<>>]
    ELSE [raised |-> FALSE,
          line |-> [k \in 1..Len(fieldnames) |->
                      IF Has(row, fieldnames[k]) /\ Get(row, fieldnames[k]) # NoneValue
                      THEN Get(row, fieldnames[k]) ELSE ""]]

\* ------------------------------------------------------ process_one_file -
\* SortedOutkeys as the keys of the probe row in the order the dict holds them
SortedOutkeys_DictOrder(fieldnames, fake_row) == Keys(fake_row)

\* the field names of the transformed chunk, from the probe row
SortedOutkeys(fieldnames, fake_row) ==
    SelectSeq(fieldnames, LAMBDA x : Has(fake_row, x))
    \o SelectSeq(Keys(fake_row), LAMBDA x : x \notin Range(fieldnames))

\* What ends a process early: the exception of a raising transformer, the
\* TypeError of iterating fieldnames that are None, the ValueError of writerow.
Errors == {"FunctionRaised", "TypeError", "ValueError"}
NoError == "none"

\* "for row in reader": lines written so far in out; stops at the first raise
RECURSIVE RowLoop(_, _, _, _, _)
RowLoop(function, fieldnames, outkeys, rows, out) ==
    IF rows = <<>> THEN [error |-> NoError, lines |-> out]
    ELSE LET t == Apply(function, RowDict(fieldnames, Head(rows)))
             w == WriteRow(outkeys, t.row)
         IN  IF t.raised THEN [error |-> "FunctionRaised", lines |-> out]
             ELSE IF w.raised THEN [error |-> "ValueError", lines |-> out]
             ELSE RowLoop(function, fieldnames, outkeys, Tail(rows), Append(out, w.line))

\* process_one_file that applies the transformer to the first data row, when
\* there is one, to find the output fields
process_one_file_ProbesFirstRow(lines, function) ==
    IF lines = <<>> THEN [error |-> "TypeError", lines |-> <<>>]
    ELSE LET fieldnames == Head(lines)
             fake_row == IF Len(lines) >= 2 THEN RowDict(fieldnames, lines[2])
                         ELSE [k \in 1..Len(fieldnames) |-> <<fieldnames[k], ProbeValue>>]
             probe == Apply(function, fake_row)
             outkeys == SortedOutkeys(fieldnames, probe.row)
         IN  IF probe.raised THEN [error |-> "FunctionRaised", lines |-> <<>>]
             ELSE RowLoop(function, fieldnames, outkeys, Tail(lines), <<outkeys>>)

\* process_one_file that takes a chunk without a data row for an error
process_one_file_NeedsARow(lines, function) ==
    IF Len(lines) < 2 THEN [error |-> "TypeError", lines |-> <<>>]
    ELSE LET fieldnames == Head(lines)
             fake_row == [k \in 1..Len(fieldnames) |-> <<fieldnames[k], ProbeValue>>]
             probe == Apply(function, fake_row)
             outkeys == SortedOutkeys(fieldnames, probe.row)
         IN  IF probe.raised THEN [error |-> "FunctionRaised", lines |-> <<>>]
             ELSE RowLoop(function, fieldnames, outkeys, Tail(lines), <<outkeys>>)

\* process_one_file(infile, outfile, function) on the text lines of a chunk:
\* what it wrote to outfile and what it raised.  A chunk with no line at
\* all has fieldnames None, and building the probe row raises TypeError.
process_one_file(lines, function) ==
    IF lines = <<>> THEN [error |-> "TypeError", lines |-> <<>>]
    ELSE LET fieldnames == Head(lines)
             fake_row == [k \in 1..Len(fieldnames) |-> <<fieldnames[k], ProbeValue>>]
             probe == Apply(function, fake_row)
             outkeys == SortedOutkeys(fieldnames, probe.row)
         IN  IF probe.raised THEN [error |-> "FunctionRaised", lines |-> <<>>]
             ELSE RowLoop(function, fieldnames, outkeys, Tail(lines), <<outkeys>>)

\* ---------------------------------------------------------------- merge --
\* header = open(rlist[0]).readline(); outfile.write(header)
MergeHeader(first) == IF first = <<>> THEN <<>> ELSE <<Head(first)>>
\* MergeBody without the readline that skips the header
MergeBody_KeepsHeader(lines) == lines

\* ifile.readline() skips one line; the read loop copies all that follows
MergeBody(lines) == IF lines = <<>> THEN <<>> ELSE Tail(lines)

\* ----------------------------------------------------------- rlist.sort --
\* order of the tuples (proc_num, name)
TupleLess(x, y) == x[1] < y[1] \/ (x[1] = y[1] /\ x[2] < y[2])
RECURSIVE Insert(_, _)
Insert(x, s) ==
    IF s = <<>> THEN <<x>>
    ELSE IF TupleLess(x, Head(s)) THEN <<x>> \o s
         ELSE <<Head(s)>> \o Insert(x, Tail(s))
\* rlist left in the order the results were taken from the queue
Sort_Missing(s) == s

RECURSIVE Sort(_)
Sort(s) == IF s = <<>> THEN <<>> ELSE Insert(Head(s), Sort(Tail(s)))

\* ------------------------------------------------------------ the state --
VARIABLES
    infile,      \* the input file (contents of infilename)
    function,    \* the transformer passed to process_csv
    cpu_count,   \* multiprocessing.cpu_count(), the default num_chunks of split
    max_procs,   \* the max_procs argument of process_csv
    pc,          \* where process_csv is
    files,       \* the chunks split returned
    cursor,      \* position of split's infile when split returns
    procs,       \* state of every CSVProcessor: "started", "processed" (the with
                 \* block is left), "exited", or the error that ended it
    tmpfiles,    \* the named temporary files, by name: [exists, lines, owner]
    results,     \* the results queue
    idx,         \* the index of the loop process_csv (or merge) is in
    rlist,       \* rlist of process_csv
    arrival,     \* the proc_nums in the order results.get() returned them
    out          \* the file at outfilename: [opened, lines]

vars == <<infile, function, cpu_count, max_procs, pc, files, cursor, procs,
          tmpfiles, results, idx, rlist, arrival, out>>

inputs == <<infile, function, cpu_count, max_procs>>

\* max_procs=max(6, multiprocessing.cpu_count())
DefaultMaxProcs(cpus) == Max2(6, cpus)

\* process_csv is called on one of the files fs with one of the transformers,
\* on a machine with 1..MaxCpu processors, with max_procs one of mp[cpu_count]
InitWith(fs, mp) ==
    /\ infile \in fs
    /\ function \in Functions
    /\ cpu_count \in 1..MaxCpu
    /\ max_procs \in mp[cpu_count]
    /\ pc = "split"
    /\ files = <<>>
    /\ cursor = 0
    /\ procs = <<>>
    /\ tmpfiles = <<>>
    /\ results = <<>>
    /\ idx = 0
    /\ rlist = <<>>
    /\ arrival = <<>>
    /\ out = [opened |-> FALSE, lines |-> <<>>]

\* max_procs left at its default
Init == InitWith(InputFiles, [c \in 1..MaxCpu |-> {DefaultMaxProcs(c)}])

\* max_procs passed by the caller, on the files of at most one record
InitMaxProcs ==
    InitWith({f \in InputFiles : Len(f.lines) <= 1},
             [c \in 1..MaxCpu |-> 1..DefaultMaxProcs(c)])

\* ------------------------------------------------------- process_csv ----
\* files = split(infilename)
Split ==
    /\ pc = "split"
    /\ LET s == split(infile, cpu_count)
       IN  /\ files' = s.files
           /\ cursor' = s.pos
    /\ pc' = "start"
    /\ idx' = 1
    /\ UNCHANGED <<inputs, procs, tmpfiles, results, rlist, arrival, out>>

\* one iteration of "for proc_num, ifile in enumerate(files)": create the
\* process and start it
Start ==
    /\ pc = "start"
    /\ procs' = Append(procs, "started")
    /\ IF idx = Len(files)
       THEN pc' = "join" /\ idx' = 1
       ELSE pc' = "start" /\ idx' = idx + 1
    /\ UNCHANGED <<inputs, files, cursor, tmpfiles, results, rlist, arrival, out>>

\* CSVProcessor.run up to the end of the with block: the named temporary file
\* is created, process_one_file writes it, the file is closed.  When
\* process_one_file raises the process ends there.
Run(p) ==
    /\ p \in 1..Len(procs)
    /\ procs[p] = "started"
    /\ LET r == process_one_file(ChunkLines(infile, files[p]), function)
       IN  /\ tmpfiles' = Append(tmpfiles, [exists |-> TRUE, lines |-> r.lines, owner |-> p])
           /\ procs' = [procs EXCEPT ![p] = IF r.error = NoError THEN "processed" ELSE r.error]
    /\ UNCHANGED <<inputs, pc, files, cursor, results, idx, rlist, arrival, out>>

\* the name of the file process p wrote
OutName(p) == CHOOSE n \in 1..Len(tmpfiles) : tmpfiles[n].owner = p

\* self.results_queue.put((self.proc_num, outfile.name)), and the process ends
Put(p) ==
    /\ p \in 1..Len(procs)
    /\ procs[p] = "processed"
    /\ results' = Append(results, <<p - 1, OutName(p)>>)
    /\ procs' = [procs EXCEPT ![p] = "exited"]
    /\ UNCHANGED <<inputs, pc, files, cursor, tmpfiles, idx, rlist, arrival, out>>

\* process.join(): returns once process idx has ended
Join ==
    /\ pc = "join"
    /\ procs[idx] \in {"exited"} \cup Errors
    /\ pc' = "get"
    /\ UNCHANGED <<inputs, files, cursor, procs, tmpfiles, results, idx, rlist, arrival, out>>

\* GetResult that takes no result for a process that ended with an error
GetResult_SkipsFailed ==
    /\ pc = "get"
    /\ procs[idx] \in Errors \/ results # <<>>
    /\ IF procs[idx] \in Errors
       THEN UNCHANGED <<rlist, arrival, results>>
       ELSE /\ rlist' = Append(rlist, Head(results))
            /\ arrival' = Append(arrival, Head(results)[1])
            /\ results' = Tail(results)
    /\ IF idx = Len(procs)
       THEN pc' = "sort" /\ idx' = 0
       ELSE pc' = "join" /\ idx' = idx + 1
    /\ UNCHANGED <<inputs, files, cursor, procs, tmpfiles, out>>

\* GetResult that reads the first item of the queue and leaves it there
GetResult_Peeks ==
    /\ pc = "get"
    /\ results # <<>>
    /\ rlist' = Append(rlist, Head(results))
    /\ arrival' = Append(arrival, Head(results)[1])
    /\ IF idx = Len(procs)
       THEN pc' = "sort" /\ idx' = 0
       ELSE pc' = "join" /\ idx' = idx + 1
    /\ UNCHANGED <<inputs, files, cursor, procs, tmpfiles, results, out>>

\* rlist.append(results.get()): blocks while the queue is empty
GetResult ==
    /\ pc = "get"
    /\ results # <<>>
    /\ rlist' = Append(rlist, Head(results))
    /\ arrival' = Append(arrival, Head(results)[1])
    /\ results' = Tail(results)
    /\ IF idx = Len(procs)
       THEN pc' = "sort" /\ idx' = 0
       ELSE pc' = "join" /\ idx' = idx + 1
    /\ UNCHANGED <<inputs, files, cursor, procs, tmpfiles, out>>

\* rlist.sort()
SortResults ==
    /\ pc = "sort"
    /\ rlist' = Sort(rlist)
    /\ pc' = "merge"
    /\ UNCHANGED <<inputs, files, cursor, procs, tmpfiles, results, idx, arrival, out>>

\* the list of names merge is called with
MergeList == [k \in 1..Len(rlist) |-> rlist[k][2]]

\* merge: open(outfilename, "w") and write the header of the first file
MergeOpen ==
    /\ pc = "merge"
    /\ out' = [opened |-> TRUE, lines |-> MergeHeader(tmpfiles[MergeList[1]].lines)]
    /\ pc' = "merge_copy"
    /\ idx' = 1
    /\ UNCHANGED <<inputs, files, cursor, procs, tmpfiles, results, rlist, arrival>>

\* merge: copy one subfile without its first line
MergeCopy ==
    /\ pc = "merge_copy"
    /\ tmpfiles[MergeList[idx]].exists
    /\ out' = [out EXCEPT !.lines = @ \o MergeBody(tmpfiles[MergeList[idx]].lines)]
    /\ pc' = "merge_unlink"
    /\ UNCHANGED <<inputs, files, cursor, procs, tmpfiles, results, idx, rlist, arrival>>

\* MergeUnlink without the os.unlink
MergeUnlink_KeepsFile ==
    /\ pc = "merge_unlink"
    /\ IF idx = Len(rlist)
       THEN pc' = "done" /\ idx' = 0
       ELSE pc' = "merge_copy" /\ idx' = idx + 1
    /\ UNCHANGED <<inputs, files, cursor, procs, tmpfiles, results, rlist, arrival, out>>

\* merge: os.unlink(subfile), and on to the next subfile or the return
MergeUnlink ==
    /\ pc = "merge_unlink"
    /\ tmpfiles' = [tmpfiles EXCEPT ![MergeList[idx]].exists = FALSE]
    /\ IF idx = Len(rlist)
       THEN pc' = "done" /\ idx' = 0
       ELSE pc' = "merge_copy" /\ idx' = idx + 1
    /\ UNCHANGED <<inputs, files, cursor, procs, results, rlist, arrival, out>>

Next ==
    \/ Split
    \/ Start
    \/ \E p \in 1..MaxCpu : Run(p)
    \/ \E p \in 1..MaxCpu : Put(p)
    \/ Join
    \/ GetResult
    \/ SortResults
    \/ MergeOpen
    \/ MergeCopy
    \/ MergeUnlink

Spec == Init /\ [][Next]_vars

SpecMaxProcs == InitMaxProcs /\ [][Next]_vars

\* ======================================================== properties ====
NumChunks == Len(files)
Failed(p) == p \in 1..Len(procs) /\ procs[p] \in Errors
\* the transformer raised in some process
FunctionRaised == \E p \in 1..Len(procs) : procs[p] = "FunctionRaised"
AnyFailed == \E p \in 1..Len(procs) : Failed(p)
\* every process was started and has ended
AllEnded ==
    /\ pc \notin {"split", "start"}
    /\ \A p \in 1..Len(procs) : procs[p] \in {"exited"} \cup Errors
\* process_csv waits in results.get() for an item no process will put
Blocked == AllEnded /\ pc = "get" /\ results = <<>>
\* process_csv has returned, or has raised to its caller
Ended == pc \in {"done", "raised"}
\* the run is over: nothing will happen any more
RunOver == Ended \/ Blocked

\* split has just returned; no later step writes to infile or to files
SplitReturned == pc = "start" /\ procs = <<>>

\* the whole body lines of the input, as pieces
WholeLines(f) == [k \in 1..Len(f.lines) |-> <<k, 0, f.lines[k].len>>]
IsWholeLine(f, p) == p[2] = 0 /\ p[3] = f.lines[p[1]].len
\* the body lines of chunk c
ChunkRecords(c) == Coalesce(files[c].body)
\* position of a field name in a header line
Column(header, name) == CHOOSE k \in 1..Len(header) : header[k] = name
\* the values of field "a" (the position markers) in the rows of a written file
MarkersOf(lines) ==
    [k \in 1..(Len(lines) - 1) |-> lines[k + 1][Column(lines[1], "a")]]
InputMarkers == [k \in 1..Len(infile.lines) |-> infile.lines[k].raw[1]]

\* C1: when process_csv has returned, the records of the output are in the
\* order of the records of the input, whatever order the results were taken
\* from the queue in.
C1_OutputInInputOrder ==
    pc = "done" => MarkersOf(out.lines) = InputMarkers

\* a finished run in which the result of process 1 was taken before that of
\* process 0 and both chunks held records
C1_Witness ==
    /\ pc = "done"
    /\ Len(arrival) >= 2 /\ arrival[1] > arrival[2]
    /\ ChunkRecords(1) # <<>> /\ ChunkRecords(2) # <<>>

\* C2: the bodies of the chunks split returned, concatenated in split order,
\* are the body of the input: nothing dropped, duplicated or reordered; there
\* are num_chunks of them and the source has been read to its end.
C2_ChunksTileTheBody ==
    /\ pc # "split" => NumChunks = cpu_count
    /\ SplitReturned =>
          /\ Coalesce(Flatten([c \in 1..NumChunks |-> files[c].body])) = WholeLines(infile)
          /\ cursor = FileSize(infile)

\* split has returned two chunks that both hold records
C2_Witness ==
    /\ pc # "split"
    /\ NumChunks >= 2
    /\ files[1].body # <<>> /\ files[2].body # <<>>

\* C3: after the transformer has raised in a process, process_csv is never
\* left waiting in results.get() for a result that no process will put: it
\* ends instead.
C3_FailureEndsTheRun == FunctionRaised => ~Blocked

\* C4: when a process has failed the output path is never opened; merge is
\* entered only after every process has put its result and all of them have
\* been taken from the queue.
C4_NoOutputAfterFailure ==
    /\ AnyFailed => ~out.opened
    /\ pc \in {"sort", "merge", "merge_copy", "merge_unlink", "done"} =>
          /\ \A p \in 1..NumChunks : procs[p] = "exited"
          /\ Len(rlist) = NumChunks

\* the run is over, one process failed and another one put its result, and
\* the output was not opened
C4_Witness ==
    /\ Blocked
    /\ AnyFailed
    /\ \E p \in 1..Len(procs) : procs[p] = "exited"
    /\ ~out.opened

\* C5: when a run in which a process failed is over, no named temporary file
\* is left.
C5_NoFileLeftAfterFailure ==
    (AnyFailed /\ RunOver) => \A n \in 1..Len(tmpfiles) : ~tmpfiles[n].exists

\* what merge has copied once the first n files of its list are done
MergedUpTo(n) ==
    MergeHeader(tmpfiles[MergeList[1]].lines)
    \o Flatten([k \in 1..n |-> MergeBody(tmpfiles[MergeList[k]].lines)])

\* C6: merge deletes a transformed chunk after its body is in the output and
\* before it opens the next one, and when process_csv returns every
\* transformed chunk of the run is deleted.
C6_MergeDeletesEveryChunk ==
    /\ pc = "merge_copy" =>
          /\ \A k \in 1..Len(MergeList) : tmpfiles[MergeList[k]].exists <=> k >= idx
          /\ out.lines = MergedUpTo(idx - 1)
    /\ pc = "merge_unlink" =>
          /\ \A k \in 1..Len(MergeList) : tmpfiles[MergeList[k]].exists <=> k >= idx
          /\ out.lines = MergedUpTo(idx)
    /\ pc = "done" =>
          /\ Len(tmpfiles) = NumChunks
          /\ \A n \in 1..Len(tmpfiles) : ~tmpfiles[n].exists

\* process_csv has returned after merging two transformed chunks with rows
C6_Witness ==
    /\ pc = "done"
    /\ Len(tmpfiles) >= 2
    /\ \A n \in 1..Len(tmpfiles) : ~tmpfiles[n].exists /\ Len(tmpfiles[n].lines) >= 2

\* C7: the processes started and not yet ended are at most max_procs.
C7_AtMostMaxProcs ==
    Cardinality({p \in 1..Len(procs) : procs[p] \in {"started", "processed"}}) <= max_procs

\* C8: every chunk is the header line followed by whole lines of the input.
C8_ChunksHoldWholeLines ==
    /\ pc # "split" => \A c \in 1..NumChunks : files[c].header = infile.header
    /\ SplitReturned =>
          \A c \in 1..NumChunks :
              LET records == ChunkRecords(c)
              IN  \A k \in 1..Len(records) : IsWholeLine(infile, records[k])

\* a chunk other than the last whose buffered reads stopped inside a line before
\* the end of the file, so that readline had the rest of that line to add
C8_Witness ==
    /\ pc # "split"
    /\ \E c \in 1..(NumChunks - 1) :
          /\ files[c].body # <<>>
          /\ LET first == files[c].body[1]
                 start == LineStart(infile, first[1]) + first[2]
                 st == CopyLoop(infile, cpu_count, [pos |-> start, size |-> 0, body |-> <<>>])
             IN  /\ st.pos < FileSize(infile)
                 /\ \A k \in 1..Len(infile.lines) : LineStart(infile, k) # st.pos

\* the records a DictReader yields from the lines of a csv file
RecordsOf(header, rows) == [k \in 1..Len(rows) |-> RowDict(header, rows[k])]
InputRecords == RecordsOf(infile.header, [k \in 1..Len(infile.lines) |-> infile.lines[k].raw])

\* C9: with the identity transformer, a run on an input that has a header line
\* ends with an output whose header is the input's and whose records are the
\* input's records.
C9_IdentityRoundTrip ==
    (function = "identity" /\ infile.header # <<>> /\ RunOver) =>
        /\ out.opened
        /\ out.lines # <<>>
        /\ Head(out.lines) = infile.header
        /\ RecordsOf(Head(out.lines), Tail(out.lines)) = InputRecords

\* the header the transformers give a chunk whose header is a,b,c
ExpectedHeader(fn) ==
    CASE fn = "add_a_column" -> <<"a", "b", "c", "new_column">>
      [] fn = "reshape" -> <<"a", "b", "z">>
      [] OTHER -> <<"a", "b", "c">>

\* C10: the header of a transformed chunk is the input fields the probe row
\* kept, in header order, then the fields the transformer added to it; with
\* add_a_column that is the input header and new_column, and every row
\* written has default_value there.
C10_HeaderFromProbe ==
    \A n \in 1..Len(tmpfiles) :
        LET lines == tmpfiles[n].lines
        IN  lines # <<>> =>
              /\ lines[1] = ExpectedHeader(function)
              /\ function = "add_a_column" =>
                    \A k \in 2..Len(lines) :
                        /\ Len(lines[k]) = Len(lines[1])
                        /\ lines[k][Column(lines[1], "new_column")] = "default_value"

\* transformed chunks with rows, written with add_a_column and with reshape
C10_Witness ==
    /\ function \in {"add_a_column", "reshape"}
    /\ \E n \in 1..Len(tmpfiles) : Len(tmpfiles[n].lines) >= 2
    /\ pc = "done"

\* every body line has as many values as the header has fields
Rectangular == \A k \in 1..Len(infile.lines) : Len(infile.lines[k].raw) = Len(infile.header)
\* the transformers that neither raise nor add a field to some rows only
ShapeKeeping == function \in {"identity", "add_a_column", "reshape", "drop_if_bad"}

\* C11: on an input with a header line and fewer records than chunks, no
\* process fails for want of records; with a transformer and rows that do not
\* themselves raise, no process fails at all, process_csv is not left waiting,
\* and the output is the header and one row for each record, in order.
C11_MoreChunksThanRecords ==
    (infile.header # <<>> /\ cpu_count > Len(infile.lines)) =>
        /\ \A p \in 1..Len(procs) : procs[p] # "TypeError"
        /\ (Rectangular /\ ShapeKeeping) =>
              /\ ~AnyFailed
              /\ ~Blocked
              /\ pc = "done" =>
                    /\ Head(out.lines) = ExpectedHeader(function)
                    /\ Len(out.lines) = 1 + Len(infile.lines)
                    /\ MarkersOf(out.lines) = InputMarkers

\* a finished run on fewer records than chunks, one chunk being the header alone
C11_Witness ==
    /\ pc = "done"
    /\ infile.header # <<>> /\ cpu_count > Len(infile.lines)
    /\ Rectangular /\ ShapeKeeping
    /\ \E c \in 1..NumChunks : files[c].body = <<>>
    /\ out.lines # <<>>

\* C12: on an empty source split fails, and no process is ever started.
C12_EmptySourceStartsNothing == infile.header = <<>> => procs = <<>>

\* the lines of the k-th file of the list merge is given
MergedFile(k) == tmpfiles[MergeList[k]].lines

\* C13: the file merge has written is the first line of the first file of its
\* list, then the lines after the first of every file of the list, in list
\* order.
C13_OutputIsHeaderThenBodies ==
    pc = "done" =>
        /\ out.lines =
              <<MergedFile(1)[1]>>
              \o Flatten([k \in 1..Len(MergeList) |->
                            SubSeq(MergedFile(k), 2, Len(MergedFile(k)))])
        /\ \A k \in 2..Len(out.lines) : out.lines[k] # out.lines[1]

\* merge has returned after copying two files that both hold rows
C13_Witness ==
    /\ pc = "done"
    /\ Len(MergeList) >= 2
    /\ \A k \in 1..Len(MergeList) : Len(MergedFile(k)) >= 2

\* the proc_nums of the results put and not yet taken, and of those taken
Reported == [k \in 1..Len(results) |-> results[k][1]] \o [k \in 1..Len(rlist) |-> rlist[k][1]]

\* C14: a chunk is given to one process and a process writes one file; no
\* proc_num is reported twice; when merge starts, as many results as there are
\* chunks have been taken, one for each proc_num, and they are in proc_num order.
C14_EveryChunkReportedOnce ==
    /\ Len(procs) <= NumChunks
    /\ Cardinality({tmpfiles[n].owner : n \in 1..Len(tmpfiles)}) = Len(tmpfiles)
    /\ LET reported == Reported
       IN  Cardinality(Range(reported)) = Len(reported)
    /\ pc \in {"merge", "merge_copy", "merge_unlink", "done"} =>
          /\ Len(arrival) = NumChunks
          /\ results = <<>>
          /\ [k \in 1..Len(rlist) |-> rlist[k][1]] = [k \in 1..NumChunks |-> k - 1]
          /\ \A k \in 1..NumChunks : tmpfiles[rlist[k][2]].owner = k

\* merge is about to start on two results that were taken out of proc_num order
C14_Witness ==
    /\ pc = "merge"
    /\ NumChunks >= 2
    /\ arrival[1] > arrival[2]

\* the transformers that raise on some row
Raisers == {"raise_on_probe", "raise_on_bad"}

\* C15: on an input with a header line and with a transformer that never
\* raises, process_csv never comes to wait in results.get() with every process
\* ended and the queue empty.
C15_NoDeadlockUnlessTransformerRaises ==
    (infile.header # <<>> /\ function \notin Raisers) => ~Blocked

\* C16: when a process has been started, split has returned: there are
\* num_chunks chunks, the source has been read to its end, and every chunk
\* holds the header line and is positioned at its start.
C16_SplitDoneBeforeAnyStart ==
    procs # <<>> =>
        /\ pc # "split"
        /\ NumChunks = cpu_count
        /\ cursor = FileSize(infile)
        /\ \A c \in 1..NumChunks :
              files[c].header = infile.header /\ files[c].at = "start"

\* the first process has been started, the others not yet, and the chunks
\* hold records
C16_Witness ==
    /\ pc = "start"
    /\ Len(procs) = 1
    /\ NumChunks >= 2
    /\ \A c \in 1..NumChunks : files[c].body # <<>>

\* characters of body in chunk c, and the source position chunk c began at
RECURSIVE PiecesSize(_)
PiecesSize(ps) == IF ps = <<>> THEN 0 ELSE (Head(ps)[3] - Head(ps)[2]) + PiecesSize(Tail(ps))
BodySize(c) == PiecesSize(files[c].body)
RECURSIVE ChunkStart(_)
ChunkStart(c) == IF c = 1 THEN HeaderLen(infile) ELSE ChunkStart(c - 1) + BodySize(c - 1)
\* the longest body line of the input
LongestLine == IF infile.lines = <<>> THEN 0
               ELSE CHOOSE n \in {infile.lines[k].len : k \in 1..Len(infile.lines)} :
                       \A k \in 1..Len(infile.lines) : infile.lines[k].len <= n

\* C17 as claimed: every chunk holds at least its share (size of the body /
\* number of chunks) of body characters.
C17_EveryChunkReachesTarget ==
    pc # "split" =>
        \A c \in 1..NumChunks : BodySize(c) * NumChunks >= SumLen(infile.lines)

\* C17 as amended: when split returns, a chunk holds at least total size /
\* number of chunks characters of body, or all that was left of the source
\* when the chunk was begun if that is less; and fewer than that target plus
\* READ_BUFFER plus the longest line.
C17_ChunkSizeBounds ==
    SplitReturned =>
        LET size == FileSize(infile)
        IN  \A c \in 1..NumChunks :
                /\ BodySize(c) * NumChunks >= Min2(size, (size - ChunkStart(c)) * NumChunks)
                /\ BodySize(c) * NumChunks < size + (READ_BUFFER + LongestLine) * NumChunks

\* a chunk that reached its target and a later one that the end of the source
\* left short of it
C17_Witness ==
    /\ pc # "split"
    /\ \E c, d \in 1..NumChunks :
          /\ c < d
          /\ BodySize(c) * NumChunks >= FileSize(infile)
          /\ BodySize(d) * NumChunks < SumLen(infile.lines)
          /\ BodySize(d) > 0

\* the body lines of the input in chunk c
LinesOfChunk(c) == {files[c].body[k][1] : k \in 1..Len(files[c].body)}
IsBad(j) == Len(infile.lines[j].raw) >= 2 /\ infile.lines[j].raw[2] = "bad"
IsShort(j) == Len(infile.lines[j].raw) < Len(infile.header)
\* the transformed record of line j carries a field that no header has
HasExtraField(j) ==
    \/ Len(infile.lines[j].raw) > Len(infile.header)
    \/ function = "add_if_bad" /\ IsBad(j)
\* the rows of a written file that come from line j
RowsOf(lines, j) == {k \in 2..Len(lines) : lines[k][Column(lines[1], "a")] = Tag[j]}

\* C18: every row of a transformed chunk has as many values as the header has
\* fields; a field the record lacks is written empty; a record with a field
\* outside the header is not written and ends its process with an error; the
\* rows of a finished output all have the width of its header.
C18_RowsMatchTheHeader ==
    /\ \A n \in 1..Len(tmpfiles) :
          LET lines == tmpfiles[n].lines
              p == tmpfiles[n].owner
          IN  lines # <<>> =>
                /\ \A k \in 2..Len(lines) : Len(lines[k]) = Len(lines[1])
                /\ \A j \in LinesOfChunk(p) :
                      LET rows == RowsOf(lines, j)
                      IN  /\ HasExtraField(j) => rows = {} /\ procs[p] \in Errors
                          /\ IsShort(j) =>
                                \A k \in rows : lines[k][Column(lines[1], "b")] = ""
                          /\ (function = "drop_if_bad" /\ IsBad(j)) =>
                                \A k \in rows : lines[k][Column(lines[1], "c")] = ""
    /\ pc = "done" => \A k \in 2..Len(out.lines) : Len(out.lines[k]) = Len(out.lines[1])

\* a process that wrote a row with an empty value for a dropped field and then
\* ended with the ValueError of writerow
C18_Witness ==
    /\ function = "drop_if_bad"
    /\ \E n \in 1..Len(tmpfiles) :
          /\ procs[tmpfiles[n].owner] = "ValueError"
          /\ Len(tmpfiles[n].lines) >= 2
          /\ tmpfiles[n].lines[2][3] = ""

\* C19: the transformed chunks of a run that have a header all have the same.
C19_OneHeaderForAllChunks ==
    /\ \A n, m \in 1..Len(tmpfiles) :
          (tmpfiles[n].lines # <<>> /\ tmpfiles[m].lines # <<>>) =>
              tmpfiles[n].lines[1] = tmpfiles[m].lines[1]
    /\ pc = "done" =>
          \A n \in 1..Len(tmpfiles) : tmpfiles[n].lines[1] = out.lines[1]

\* a finished run of a transformer that drops a field of some records only, on
\* two chunks with rows, one of them with such a record as its first
C19_Witness ==
    /\ pc = "done"
    /\ function = "drop_if_bad"
    /\ Len(tmpfiles) >= 2
    /\ \A n \in 1..Len(tmpfiles) : Len(tmpfiles[n].lines) >= 2
    /\ \E c \in 1..NumChunks : ChunkRecords(c) # <<>> /\ IsBad(ChunkRecords(c)[1][1])

\* the value of this_file_size when the copy loop of chunk c ends
LoopSize(c) ==
    CopyLoop(infile, cpu_count, [pos |-> ChunkStart(c), size |-> 0, body |-> <<>>]).size

\* C20: split returns num_chunks chunks whatever the input; the copy loop of
\* every chunk, one begun at the end of the source included, ends after the
\* least number of READ_BUFFER steps that reaches the target size.
C20_SplitReturnsNumChunks ==
    /\ pc # "split" => NumChunks = cpu_count
    /\ SplitReturned =>
          \A c \in 1..NumChunks :
              LET this_file_size == LoopSize(c)
              IN  /\ this_file_size % READ_BUFFER = 0
                  /\ this_file_size * NumChunks >= FileSize(infile)
                  /\ this_file_size > 0 =>
                        (this_file_size - READ_BUFFER) * NumChunks < FileSize(infile)

\* split has returned a chunk that it began with the source already at its end
C20_Witness ==
    /\ pc # "split"
    /\ FileSize(infile) > 0
    /\ \E c \in 1..NumChunks : ChunkStart(c) = FileSize(infile) /\ LoopSize(c) > 0

====
